---- MODULE Spec2Model ----
(***************************************************************************)
(* Model of src/src/make_header_files.py: the register-map to C++ header   *)
(* generator.  The pure functions (parse_bit_range, generate_bitfields,    *)
(* get_uint_type, generate_assignment_lines, generate_cpp_struct,          *)
(* generate_main_register_space) are operators; excel_to_cpp_header is a   *)
(* state machine.  A Python call either returns a value or raises: both    *)
(* are modelled by a record [exc, val], exc = "none" for a normal return.  *)
(* Text is modelled as sequences of one-character strings wherever the     *)
(* code looks inside it (bit locators, hexadecimal masks).                 *)
(***************************************************************************)
EXTENDS Integers, Sequences, FiniteSets, TLC

VARIABLES
    width,        \* generate_bitfields / generate_assignment_lines / get_uint_type: width
    df_bits,      \* generate_bitfields: the rows of df_bits
    fields,       \* the result of generate_bitfields (the layout handed on)
    lines,        \* the result of generate_assignment_lines
    n,            \* the raw integer given to the generated operator=
    decoded,      \* the aggregate's sub-fields after the generated operator= ran
    uint_type,    \* the result of get_uint_type
    pc,           \* position of the function-level run
    config,       \* excel_to_cpp_header: the config dict
    sheets,       \* the two sheets pd.read_excel returns
    language,     \* excel_to_cpp_header: language
    header_lines, \* excel_to_cpp_header: header_lines
    enum_entries, \* excel_to_cpp_header: enum_entries
    idx,          \* number of "Register Map" rows the loop has finished
    out_file,     \* the output file on disk
    hpc,          \* position inside excel_to_cpp_header
    raised        \* the exception excel_to_cpp_header ended with, "none" if none

vars == <<width, df_bits, fields, lines, n, decoded, uint_type, pc, config, sheets,
          language, header_lines, enum_entries, idx, out_file, hpc, raised>>

bitVars == <<width, df_bits, fields, lines, n, decoded, pc>>

headerVars == <<config, sheets, language, header_lines, enum_entries, idx, out_file,
                hpc, raised>>

-----------------------------------------------------------------------------
(* Bounds of the model *)

\* largest register width of the function-level runs
MaxWidth == 4

\* largest number of rows of df_bits
MaxRows == 2

\* largest width get_uint_type is applied to
MaxTypeWidth == 70

\* largest number of entries of a layout handed directly to generate_assignment_lines
MaxFields == 3

\* largest number of rows of the "Register Map" sheet
MaxRegs == 2

\* largest number of rows of the "Register Specific" sheet
MaxSpecific == 2

-----------------------------------------------------------------------------
(* Python values *)

\* a normal return
Ok(v) == [exc |-> "none", val |-> v]

\* a raised exception
Raise(e) == [exc |-> e, val |-> <<>>]

\* no call made yet
NotCalled == [exc |-> "pending", val |-> <<>>]

\* Python's None inside a list of bit positions (bit positions are >= 0)
None == -1

RECURSIVE Pow2(_)
Pow2(k) == IF k <= 0 THEN 1 ELSE 2 * Pow2(k - 1)

Max(S) == CHOOSE x \in S : \A y \in S : y <= x

\* sorted(S) of a set of integers, ascending
RECURSIVE Sorted(_)
Sorted(S) ==
    IF S = {} THEN <<>>
    ELSE LET m == CHOOSE x \in S : \A y \in S : x <= y
         IN  <<m>> \o Sorted(S \ {m})

-----------------------------------------------------------------------------
(* Text *)

Digits == <<"0", "1", "2", "3", "4", "5", "6", "7", "8", "9">>

HexDigits == <<"0", "1", "2", "3", "4", "5", "6", "7", "8", "9",
               "a", "b", "c", "d", "e", "f">>

IsDigit(c) == \E i \in DOMAIN Digits : Digits[i] = c

DigitVal(c) == (CHOOSE i \in DOMAIN Digits : Digits[i] = c) - 1

\* str.strip() on blanks
RECURSIVE LStrip(_)
LStrip(s) == IF s # <<>> /\ Head(s) = " " THEN LStrip(Tail(s)) ELSE s

RECURSIVE RStrip(_)
RStrip(s) ==
    IF s # <<>> /\ s[Len(s)] = " " THEN RStrip(SubSeq(s, 1, Len(s) - 1)) ELSE s

Strip(s) == RStrip(LStrip(s))

\* str.split(sep): the pieces between the separators, empty pieces kept
RECURSIVE Split(_, _)
Split(s, sep) ==
    IF s = <<>> THEN << <<>> >>
    ELSE LET rest == Split(Tail(s), sep)
         IN  IF Head(s) = sep
             THEN << <<>> >> \o rest
             ELSE << <<Head(s)>> \o Head(rest) >> \o Tail(rest)

RECURSIVE DecimalValue(_, _)
DecimalValue(s, acc) ==
    IF s = <<>> THEN acc ELSE DecimalValue(Tail(s), 10 * acc + DigitVal(Head(s)))

\* int(text) of a text without surrounding blanks: anything but decimal digits raises
IntOfStripped(t) ==
    IF t # <<>> /\ \A i \in DOMAIN t : IsDigit(t[i])
    THEN Ok(DecimalValue(t, 0))
    ELSE Raise("ValueError")

\* int(text): surrounding blanks are ignored
int(s) == IntOfStripped(Strip(s))

\* the digits of hex(v) after "0x", v > 0
RECURSIVE HexTail(_)
HexTail(v) ==
    IF v = 0 THEN <<>> ELSE HexTail(v \div 16) \o <<HexDigits[(v % 16) + 1]>>

\* hex(v), v >= 0
Hex(v) == <<"0", "x">> \o (IF v = 0 THEN <<"0">> ELSE HexTail(v))

-----------------------------------------------------------------------------
(* parse_bit_range *)

\* line 10: "hi, lo = map(int, ...)": every piece must be an integer, and there must
\* be exactly two of them
UnpackRange(ints) ==
    IF \E i \in DOMAIN ints : ints[i].exc # "none"
    THEN Raise("ValueError")
    ELSE IF Len(ints) # 2
         THEN Raise("ValueError")
         ELSE Ok(<<ints[1].val, ints[2].val>>)

\* line 10: bit_str.split(':') mapped through int
SplitRange(parts) == UnpackRange([i \in DOMAIN parts |-> int(parts[i])])

\* line 12: hi = lo = int(bit_str)
SingleBit(v) == IF v.exc # "none" THEN Raise("ValueError") ELSE Ok(<<v.val, v.val>>)

parse_bit_range(bit_str) ==
    IF \E i \in DOMAIN bit_str : bit_str[i] = ":"
    THEN SplitRange(Split(bit_str, ":"))
    ELSE SingleBit(int(bit_str))

-----------------------------------------------------------------------------
(* generate_bitfields *)

\* lines 25-32: the field appended for a row whose locator parsed to p
FieldOf(row, p) ==
    IF p.exc # "none" THEN Raise(p.exc)
    ELSE Ok([name |-> row.Mnemonic,
             bits |-> p.val[1] - p.val[2] + 1,
             desc |-> row.Description,
             hi   |-> p.val[1],
             lo   |-> p.val[2]])

\* lines 21-32: the field a row of df_bits gives
RowField(row) == FieldOf(row, parse_bit_range(Strip(row.Bit)))

\* lines 40-47: the loop over unused[1:] + [None]
RECURSIVE GroupRuns(_, _, _, _)
GroupRuns(rest, start, prev, reserved_groups) ==
    IF rest = <<>> THEN reserved_groups
    ELSE LET b == Head(rest)
         IN  IF b = None \/ b # prev + 1
             THEN GroupRuns(Tail(rest), IF b # None THEN b ELSE start, b,
                            Append(reserved_groups, <<start, prev>>))
             ELSE GroupRuns(Tail(rest), start, b, reserved_groups)

\* lines 49-56: "for hi, lo in reserved_groups" unpacks each (start, prev) pair
ReservedField(group) ==
    LET hi == group[1]
        lo == group[2]
    IN  [name |-> "RESERVED",
         bits |-> hi - lo + 1,
         desc |-> "Reserved",
         hi   |-> hi,
         lo   |-> lo]

\* lines 49-56: one field per group
FieldsOfGroups(reserved_groups) ==
    [i \in DOMAIN reserved_groups |-> ReservedField(reserved_groups[i])]

\* lines 38-56: the RESERVED fields of the sorted list of unused bits
FillGaps(unused) ==
    IF unused # <<>>
    THEN FieldsOfGroups(GroupRuns(Tail(unused) \o <<None>>, unused[1], unused[1], <<>>))
    ELSE <<>>

\* lines 36-56
ReservedFields(used_bits, w) == FillGaps(Sorted((0 .. (w - 1)) \ used_bits))

\* insertion into a list already ordered by hi, descending, behind equal keys
RECURSIVE InsertByHi(_, _)
InsertByHi(s, f) ==
    IF s = <<>> THEN <<f>>
    ELSE IF Head(s).hi >= f.hi
         THEN <<Head(s)>> \o InsertByHi(Tail(s), f)
         ELSE <<f>> \o s

RECURSIVE SortFrom(_, _)
SortFrom(fs, acc) ==
    IF fs = <<>> THEN acc ELSE SortFrom(Tail(fs), InsertByHi(acc, Head(fs)))

\* line 58 left out: the fields stay as they were appended
KeepAppendOrder(fs) == fs

\* line 58: sorted(fields, key=hi, reverse=True), a stable sort
SortByHiDescending(fs) == SortFrom(fs, <<>>)

\* line 33: the bits the explicit fields cover
UsedBits(explicit) == UNION {explicit[i].lo .. explicit[i].hi : i \in DOMAIN explicit}

\* lines 35-59: the explicit fields, the RESERVED ones behind them, then the sort
FillAndSort(explicit, w) ==
    SortByHiDescending(explicit \o ReservedFields(UsedBits(explicit), w))

\* lines 20-59: the loop over the rows stops at the first locator that does not parse
LayoutOf(parsed, w) ==
    IF \E i \in DOMAIN parsed : parsed[i].exc # "none"
    THEN Raise("ValueError")
    ELSE Ok(FillAndSort([i \in DOMAIN parsed |-> parsed[i].val], w))

generate_bitfields(rows, w) == LayoutOf([i \in DOMAIN rows |-> RowField(rows[i])], w)

-----------------------------------------------------------------------------
(* get_uint_type *)

\* lines 63-67 with "<" for "<="
get_uint_type_exclusive(w) ==
    IF w < 8 THEN "uint8_t"
    ELSE IF w < 16 THEN "uint16_t"
    ELSE IF w < 32 THEN "uint32_t"
    ELSE "uint64_t"

get_uint_type(w) ==
    IF w <= 8 THEN "uint8_t"
    ELSE IF w <= 16 THEN "uint16_t"
    ELSE IF w <= 32 THEN "uint32_t"
    ELSE "uint64_t"

-----------------------------------------------------------------------------
(* generate_assignment_lines *)

\* lines 83-87: the mask literal of one statement; 1 << bits raises for bits < 0
MaskLiteral(bits) ==
    IF bits = 1 THEN Ok(<<"0", "x", "1">>)
    ELSE IF bits < 0 THEN Raise("ValueError")
    ELSE Ok(Hex(Pow2(bits) - 1))

\* lines 78, 106, 134: max(map(len, names))
MaxNameWidth(names) == Max({Len(names[i]) : i \in DOMAIN names})

\* line 80 iterating reversed(bitfields), as its comment speaks of
AssignmentLinesReversed(bitfields, max_name_width, masks) ==
    IF \E i \in DOMAIN masks : masks[i].exc # "none"
    THEN Raise("ValueError")
    ELSE Ok([i \in DOMAIN bitfields |->
               [name       |-> bitfields[Len(bitfields) + 1 - i].name,
                name_width |-> max_name_width,
                shift      |-> bitfields[Len(bitfields) + 1 - i].lo,
                mask       |-> masks[Len(bitfields) + 1 - i].val]])

\* lines 80-89: one statement "name = (n >> lo) & mask;" per entry, in the order of
\* bitfields, the name padded to max_name_width
AssignmentLines(bitfields, max_name_width, masks) ==
    IF \E i \in DOMAIN masks : masks[i].exc # "none"
    THEN Raise("ValueError")
    ELSE Ok([i \in DOMAIN bitfields |->
               [name       |-> bitfields[i].name,
                name_width |-> max_name_width,
                shift      |-> bitfields[i].lo,
                mask       |-> masks[i].val]])

\* max() of no names raises
generate_assignment_lines(bitfields, w) ==
    IF bitfields = <<>> THEN Raise("ValueError")
    ELSE AssignmentLines(bitfields,
                         MaxNameWidth([i \in DOMAIN bitfields |-> bitfields[i].name]),
                         [i \in DOMAIN bitfields |-> MaskLiteral(bitfields[i].bits)])

-----------------------------------------------------------------------------
(* The code the generated header holds: "name = (n >> lo) & mask;" *)

HexVal(c) == (CHOOSE i \in DOMAIN HexDigits : HexDigits[i] = c) - 1

RECURSIVE HexValue(_, _)
HexValue(s, acc) ==
    IF s = <<>> THEN acc ELSE HexValue(Tail(s), 16 * acc + HexVal(Head(s)))

\* the value of a C++ literal 0x...
ParseHexLiteral(lit) == HexValue(SubSeq(lit, 3, Len(lit)), 0)

\* a & b on non-negative integers
RECURSIVE BitAnd(_, _)
BitAnd(a, b) ==
    IF a = 0 \/ b = 0 THEN 0
    ELSE 2 * BitAnd(a \div 2, b \div 2) + (IF a % 2 = 1 /\ b % 2 = 1 THEN 1 ELSE 0)

\* the value one emitted statement stores for the raw integer raw
Extract(line, raw) == BitAnd(raw \div Pow2(line.shift), ParseHexLiteral(line.mask))

-----------------------------------------------------------------------------
(* generate_cpp_struct, generate_header_requirements,                      *)
(* generate_main_register_space: the text blocks of the header             *)

Block(kind, name, body) == [kind |-> kind, name |-> name, body |-> body]

\* lines 108-111: one bit-field declaration per entry
Declarations(bitfields, uint, max_name_width) ==
    [i \in DOMAIN bitfields |->
       [type       |-> uint,
        name       |-> bitfields[i].name,
        name_width |-> max_name_width,
        bits       |-> bitfields[i].bits,
        comment    |-> bitfields[i].desc]]

\* lines 100-122: the struct, once its declarations and its operator= body are made
StructText(reg_row, uint, decls, assign) ==
    IF assign.exc # "none" THEN Raise(assign.exc)
    ELSE Ok(<<Block("struct", reg_row.Register_Name,
                    [addr   |-> reg_row.Address,
                     desc   |-> reg_row.Description,
                     type   |-> reg_row.Type,
                     width  |-> reg_row.Width,
                     reset  |-> reg_row.Reset_Value,
                     decls  |-> decls,
                     param  |-> uint,
                     assign |-> assign.val])>>)

generate_cpp_struct(reg_row, bitfields) ==
    IF bitfields = <<>> THEN Raise("ValueError")
    ELSE StructText(reg_row,
                    get_uint_type(reg_row.Width),
                    Declarations(bitfields, get_uint_type(reg_row.Width),
                                 MaxNameWidth([i \in DOMAIN bitfields |->
                                                 bitfields[i].name])),
                    generate_assignment_lines(bitfields, reg_row.Width))

generate_header_requirements ==
    <<Block("text", "#pragma once", <<>>),
      Block("text", "#include <stdint.h>\n", <<>>),
      Block("text", "// Auto-generated register definitions\n", <<>>)>>

\* lines 136-140: the enum, one enumerator per entry, in the order of the entries
EnumText(entries, max_name_width) ==
    <<Block("enum", "Register",
            [i \in DOMAIN entries |->
               [name       |-> entries[i][1],
                name_width |-> max_name_width,
                addr       |-> entries[i][2],
                desc       |-> entries[i][3]]])>>

\* max() of no names raises
generate_main_register_space(entries) ==
    IF entries = <<>> THEN Raise("ValueError")
    ELSE Ok(EnumText(entries, MaxNameWidth([i \in DOMAIN entries |-> entries[i][1]])))

-----------------------------------------------------------------------------
(* Inputs *)

\* the digits the locators are written with
DigitChars == {"0", "1", "2", "3"}

\* locators that are no plain "b" or "hi:lo": an open range, a word, a padded bit
OddLocators == {<<"5", ":">>, <<"x">>, <<" ", "0">>}

\* the "Bit" cells: every "b" and "hi:lo" over the digits, and the odd ones
Locators ==
    {<<d>> : d \in DigitChars}
        \cup {<<h, ":", l>> : h \in DigitChars, l \in DigitChars}
        \cup OddLocators

\* the "Mnemonic" cell of the i-th row
Mnemonics == <<"EN", "MODE", "A", "B", "C", "D">>

BitRow(i, bit) == [Mnemonic |-> Mnemonics[i], Bit |-> bit, Description |-> "d"]

\* the dataframe whose "Bit" cells are bits, row after row
BitFrame(bits) == [i \in DOMAIN bits |-> BitRow(i, bits[i])]

\* an entry of a layout generate_assignment_lines is run on directly
LayoutEntry(i, hi, lo) ==
    [name |-> Mnemonics[i], bits |-> hi - lo + 1, desc |-> "d", hi |-> hi, lo |-> lo]

\* the (hi, lo) of the entries of those layouts
BitPairs == (0 .. MaxWidth - 1) \X (0 .. MaxWidth - 1)

\* the layout whose entries have the given (hi, lo), entry after entry
Layout(pairs) == [i \in DOMAIN pairs |-> LayoutEntry(i, pairs[i][1], pairs[i][2])]

-----------------------------------------------------------------------------
(* Function-level runs *)

HeaderIdle ==
    /\ config = [excel_file |-> "None", output_file |-> "None", language |-> "absent"]
    /\ sheets = [Register_Map |-> <<>>, Register_Specific |-> <<>>]
    /\ language = "unset"
    /\ header_lines = <<>>
    /\ enum_entries = <<>>
    /\ idx = 0
    /\ out_file = [exists |-> FALSE, text |-> <<>>]
    /\ hpc = "idle"
    /\ raised = "none"

\* generate_bitfields(df_bits, width) is about to be called
InitBits ==
    /\ width \in 1 .. MaxWidth
    /\ \E k \in 0 .. MaxRows : \E bits \in [1 .. k -> Locators] : df_bits = BitFrame(bits)
    /\ fields = NotCalled
    /\ lines = NotCalled
    /\ n = 0
    /\ decoded = <<>>
    /\ uint_type = "unset"
    /\ pc = "start"
    /\ HeaderIdle

\* generate_assignment_lines(bitfields, width) is about to be called on a given layout
InitAssign ==
    /\ width = MaxWidth
    /\ df_bits = <<>>
    /\ \E k \in 0 .. MaxFields : \E pairs \in [1 .. k -> BitPairs] :
          fields = Ok(Layout(pairs))
    /\ lines = NotCalled
    /\ n = 0
    /\ decoded = <<>>
    /\ uint_type = "unset"
    /\ pc = "layout"
    /\ HeaderIdle

\* get_uint_type(width) is about to be called
InitType ==
    /\ width \in 1 .. MaxTypeWidth
    /\ df_bits = <<>>
    /\ fields = NotCalled
    /\ lines = NotCalled
    /\ n = 0
    /\ decoded = <<>>
    /\ uint_type = "unset"
    /\ pc = "type"
    /\ HeaderIdle

GenerateBitfields ==
    /\ pc = "start"
    /\ fields' = generate_bitfields(df_bits, width)
    /\ pc' = IF fields'.exc = "none" THEN "layout" ELSE "raised"
    /\ UNCHANGED <<width, df_bits, lines, n, decoded, uint_type, headerVars>>

GenerateAssignmentLines ==
    /\ pc = "layout"
    /\ lines' = generate_assignment_lines(fields.val, width)
    /\ pc' = IF lines'.exc = "none" THEN "lines" ELSE "raised"
    /\ UNCHANGED <<width, df_bits, fields, n, decoded, uint_type, headerVars>>

\* the generated operator=(n): every emitted statement runs, in order
AssignRaw ==
    /\ pc = "lines"
    /\ \E raw \in 0 .. Pow2(width) - 1 :
          /\ n' = raw
          /\ decoded' = [i \in DOMAIN lines.val |-> Extract(lines.val[i], raw)]
    /\ pc' = "assigned"
    /\ UNCHANGED <<width, df_bits, fields, lines, uint_type, headerVars>>

GetUintType ==
    /\ pc = "type"
    /\ uint_type' = get_uint_type(width)
    /\ pc' = "typed"
    /\ UNCHANGED <<width, df_bits, fields, lines, n, decoded, headerVars>>

NextBits == GenerateBitfields \/ GenerateAssignmentLines \/ AssignRaw

SpecBits == InitBits /\ [][NextBits]_vars

NextAssign == GenerateAssignmentLines

SpecAssign == InitAssign /\ [][NextAssign]_vars

NextType == GetUintType

SpecType == InitType /\ [][NextType]_vars

-----------------------------------------------------------------------------
(* excel_to_cpp_header *)

\* config.get(key) of a key that is not there
NoValue == "None"

RegNames == {"CTRL", "STATUS"}

AddressOf(name) == IF name = "CTRL" THEN "00" ELSE "04"

\* the rows the "Register Map" sheet is made of
RegisterRows ==
    {[Register_Name |-> nm, Address |-> AddressOf(nm), Width |-> w,
      Reset_Value |-> "0", Type |-> "RW", Description |-> nm]
        : nm \in RegNames, w \in {2, 4}}

\* the "Bit" cells of the "Register Specific" sheet
SheetLocators == {<<"0">>, <<"1", ":", "0">>, <<"5", ":">>}

SpecificRow(i, reg, bit) ==
    [Register |-> reg, Mnemonic |-> Mnemonics[i], Bit |-> bit, Description |-> "d"]

\* the "Register Specific" sheet whose rows have the given (register, bit) cells
RegisterSpecific(cells) ==
    [i \in DOMAIN cells |-> SpecificRow(i, cells[i][1], cells[i][2])]

\* the spreadsheets pd.read_excel finds on disk
ReadableFiles == {"map.ods"}

Configs ==
    [excel_file  : {NoValue, "map.ods", "nowhere.ods"},
     output_file : {NoValue, "registers.h"},
     language    : {"absent", "cpp", "rust"}]

InitHeader ==
    /\ config \in Configs
    /\ \E k \in 0 .. MaxRegs : \E regs \in [1 .. k -> RegisterRows] :
          \E j \in 0 .. MaxSpecific : \E cells \in [1 .. j -> RegNames \X SheetLocators] :
             sheets = [Register_Map |-> regs, Register_Specific |-> RegisterSpecific(cells)]
    /\ language = "unset"
    /\ header_lines = <<>>
    /\ enum_entries = <<>>
    /\ idx = 0
    /\ out_file = [exists |-> FALSE, text |-> <<>>]
    /\ hpc = "start"
    /\ raised = "none"
    /\ width = 0
    /\ df_bits = <<>>
    /\ fields = NotCalled
    /\ lines = NotCalled
    /\ n = 0
    /\ decoded = <<>>
    /\ uint_type = "unset"
    /\ pc = "idle"

\* lines 163-165: main_register_creation.get(language), called on (reg, bitfields)
MainRegisterCreation(lang, reg, bitfields) ==
    IF lang = "cpp" THEN generate_cpp_struct(reg, bitfields) ELSE Raise("TypeError")

\* lines 167-169, 191: missing_register_format.get(language).format(reg_name=...)
MissingRegisterFormat(lang, reg_name) ==
    IF lang = "cpp" THEN Ok(<<Block("missing", reg_name, <<>>)>>)
    ELSE Raise("AttributeError")

\* line 184: all_registers[all_registers["Register"] == reg_name]
RECURSIVE RowsOf(_, _)
RowsOf(all_registers, reg_name) ==
    IF all_registers = <<>> THEN <<>>
    ELSE (IF Head(all_registers).Register = reg_name
          THEN <<Head(all_registers)>> ELSE <<>>)
             \o RowsOf(Tail(all_registers), reg_name)

\* lines 185-188: the struct of a layout, if generate_bitfields returned one
TextOfLayout(lang, reg_row, bitfields) ==
    IF bitfields.exc # "none" THEN Raise(bitfields.exc)
    ELSE MainRegisterCreation(lang, reg_row, bitfields.val)

\* lines 183-191 without the test of line 183: the layout is made for every register
TextOfRowsUnguarded(lang, reg_row, bit_df) ==
    TextOfLayout(lang, reg_row, generate_bitfields(bit_df, reg_row.Width))

\* lines 183-191: a register with rows gets its struct, one without the placeholder
TextOfRows(lang, reg_row, bit_df) ==
    IF bit_df # <<>>
    THEN TextOfLayout(lang, reg_row, generate_bitfields(bit_df, reg_row.Width))
    ELSE MissingRegisterFormat(lang, reg_row.Register_Name)

\* lines 179-191: the text one "Register Map" row adds to header_lines
RegisterText(reg_row, all_registers, lang) ==
    TextOfRows(lang, reg_row, RowsOf(all_registers, reg_row.Register_Name))

\* lines 145-174: the configuration is checked, the sheets are read, the prologue is put
Begin ==
    /\ hpc = "start"
    /\ IF config.excel_file = NoValue \/ config.output_file = NoValue
       THEN /\ raised' = "ValueError"
            /\ hpc' = "failed"
            /\ UNCHANGED <<language, header_lines>>
       ELSE /\ language' = IF config.language = "absent" THEN "cpp" ELSE config.language
            /\ IF config.excel_file \notin ReadableFiles
               THEN /\ raised' = "FileNotFoundError"
                    /\ hpc' = "failed"
                    /\ UNCHANGED header_lines
               ELSE /\ header_lines' = IF language' = "cpp"
                                       THEN generate_header_requirements
                                       ELSE <<>>
                    /\ hpc' = "loop"
                    /\ UNCHANGED raised
    /\ UNCHANGED <<config, sheets, enum_entries, idx, out_file, bitVars, uint_type>>

\* lines 179-192: what one pass does with the text reg_text made for the row reg; an
\* exception leaves the function
LoopBody(reg, reg_text) ==
    IF reg_text.exc # "none"
    THEN /\ raised' = reg_text.exc
         /\ hpc' = "failed"
         /\ UNCHANGED <<header_lines, enum_entries, idx>>
    ELSE /\ header_lines' = header_lines \o reg_text.val
         /\ enum_entries' =
                Append(enum_entries, <<reg.Register_Name, reg.Address, reg.Description>>)
         /\ idx' = idx + 1
         /\ UNCHANGED <<hpc, raised>>

\* lines 178-192 with the file written at every pass instead of once behind the loop
ProcessRegisterWriting ==
    /\ hpc = "loop"
    /\ idx < Len(sheets.Register_Map)
    /\ LoopBody(sheets.Register_Map[idx + 1],
                RegisterText(sheets.Register_Map[idx + 1], sheets.Register_Specific,
                             language))
    /\ out_file' = [exists |-> TRUE, text |-> header_lines']
    /\ UNCHANGED <<config, sheets, language, bitVars, uint_type>>

\* lines 178-192: one pass of the loop over the "Register Map" rows
ProcessRegister ==
    /\ hpc = "loop"
    /\ idx < Len(sheets.Register_Map)
    /\ LoopBody(sheets.Register_Map[idx + 1],
                RegisterText(sheets.Register_Map[idx + 1], sheets.Register_Specific,
                             language))
    /\ UNCHANGED <<config, sheets, language, out_file, bitVars, uint_type>>

\* lines 195-196: header_lines.extend(main_registers), unless making them raised
ExtendWith(main_registers) ==
    IF main_registers.exc # "none"
    THEN /\ raised' = main_registers.exc
         /\ hpc' = "failed"
         /\ UNCHANGED header_lines
    ELSE /\ header_lines' = header_lines \o main_registers.val
         /\ hpc' = "write"
         /\ UNCHANGED raised

\* lines 194-196: the loop is over, the enum is put behind the register blocks
EmitRegisterSpace ==
    /\ hpc = "loop"
    /\ idx = Len(sheets.Register_Map)
    /\ IF language = "cpp"
       THEN ExtendWith(generate_main_register_space(enum_entries))
       ELSE /\ hpc' = "write"
            /\ UNCHANGED <<header_lines, raised>>
    /\ UNCHANGED <<config, sheets, language, enum_entries, idx, out_file, bitVars,
                   uint_type>>

\* lines 198-203: the output file is opened, written and closed
WriteOutput ==
    /\ hpc = "write"
    /\ out_file' = [exists |-> TRUE, text |-> header_lines]
    /\ hpc' = "done"
    /\ UNCHANGED <<config, sheets, language, header_lines, enum_entries, idx, raised,
                   bitVars, uint_type>>

NextHeader == Begin \/ ProcessRegister \/ EmitRegisterSpace \/ WriteOutput

SpecHeader == InitHeader /\ [][NextHeader]_vars

-----------------------------------------------------------------------------
(* What the properties speak of *)

\* the bits lo..hi an entry of a layout records
Span(f) == f.lo .. f.hi

\* the (hi, lo) a well-formed locator denotes
Located(row) == parse_bit_range(Strip(row.Bit))

\* a parsed locator that is non-numeric, an inverted range, or reaches beyond the width
MalformedAt(p, w) ==
    \/ p.exc # "none"
    \/ /\ p.exc = "none"
       /\ \/ p.val[1] < p.val[2]
          \/ p.val[1] >= w

Malformed(row, w) == MalformedAt(Located(row), w)

\* parsed locators whose ranges lie in [0, w-1] and are pairwise disjoint
WellLocated(ps, w) ==
    /\ \A i \in DOMAIN ps : ~MalformedAt(ps[i], w)
    /\ \A i, j \in DOMAIN ps :
          i # j => (ps[i].val[2] .. ps[i].val[1]) \cap (ps[j].val[2] .. ps[j].val[1]) = {}

\* explicit fields whose ranges lie in [0, w-1] and are pairwise disjoint
InRangeDisjoint(rows, w) == WellLocated([i \in DOMAIN rows |-> Located(rows[i])], w)

\* the bits of 0..w-1 no explicit field covers
Uncovered(rows, w) ==
    (0 .. w - 1) \ UNION {Located(rows[i]).val[2] .. Located(rows[i]).val[1]
                            : i \in DOMAIN rows}

\* the maximal contiguous runs of a set of bits, each as <<lowest, highest>>
MaximalRuns(S) ==
    {r \in S \X S :
        /\ r[1] <= r[2]
        /\ \A b \in r[1] .. r[2] : b \in S
        /\ r[1] - 1 \notin S
        /\ r[2] + 1 \notin S}

\* a | b on non-negative integers
RECURSIVE BitOr(_, _)
BitOr(a, b) ==
    IF a = 0 THEN b
    ELSE IF b = 0 THEN a
    ELSE 2 * BitOr(a \div 2, b \div 2) + (IF a % 2 = 1 \/ b % 2 = 1 THEN 1 ELSE 0)

\* (field << lo) OR-combined over the first k entries of a layout
RECURSIVE Recompose(_, _, _)
Recompose(vals, layout, k) ==
    IF k = 0 THEN 0
    ELSE BitOr(Recompose(vals, layout, k - 1), vals[k] * Pow2(layout[k].lo))

\* generate_bitfields has returned a layout
HasLayout == fields.exc = "none" /\ pc # "start"

-----------------------------------------------------------------------------
(* Layout properties, under SpecBits *)

\* C1: for in-range, pairwise disjoint explicit fields the layout generate_bitfields
\* returns covers every bit of 0..width-1 exactly once: the union of the entries'
\* ranges [lo, hi] is 0..width-1 and no two entries share a bit.
C1_CoversEveryBitOnce ==
    (pc # "start" /\ InRangeDisjoint(df_bits, width)) =>
        /\ fields.exc = "none"
        /\ UNION {Span(fields.val[i]) : i \in DOMAIN fields.val} = 0 .. width - 1
        /\ \A i, j \in DOMAIN fields.val :
              i # j => Span(fields.val[i]) \cap Span(fields.val[j]) = {}

\* C2: round trip: for a layout made from in-range disjoint explicit fields and every
\* n below 2^width, the emitted statements decode n and OR-combining (field << lo)
\* over all entries gives n back.
C2_RoundTrip ==
    (lines.exc # "pending" /\ InRangeDisjoint(df_bits, width)) =>
        /\ lines.exc = "none"
        /\ pc = "assigned" => Recompose(decoded, fields.val, Len(fields.val)) = n

\* C3: generate_bitfields makes exactly one RESERVED entry per maximal run of
\* uncovered bits, with hi the run's highest bit, lo its lowest and bits its length.
C3_OneReservedPerRun ==
    (pc # "start" /\ InRangeDisjoint(df_bits, width)) =>
        /\ fields.exc = "none"
        /\ LET reserved == SelectSeq(fields.val, LAMBDA f : f.name = "RESERVED")
               runs     == MaximalRuns(Uncovered(df_bits, width))
           IN  /\ Len(reserved) = Cardinality(runs)
               /\ {<<reserved[i].hi, reserved[i].lo, reserved[i].bits>>
                     : i \in DOMAIN reserved}
                  = {<<r[2], r[1], r[2] - r[1] + 1>> : r \in runs}

\* C4: whatever the rows, the layout is ordered most-significant first: hi never
\* increases along it; for in-range disjoint explicit fields every entry lies
\* strictly above every entry behind it.
C4_MostSignificantFirst ==
    HasLayout =>
        /\ \A i, j \in DOMAIN fields.val :
              i < j => fields.val[i].hi >= fields.val[j].hi
        /\ InRangeDisjoint(df_bits, width) =>
              \A i, j \in DOMAIN fields.val :
                 i < j => /\ fields.val[i].hi > fields.val[j].hi
                          /\ \A b \in Span(fields.val[i]) :
                                \A c \in Span(fields.val[j]) : b > c

\* C4 witness: three entries came out of rows given least-significant first
C4_Witness ==
    /\ HasLayout
    /\ InRangeDisjoint(df_bits, width)
    /\ Len(df_bits) = 2
    /\ Located(df_bits[1]).val[1] < Located(df_bits[2]).val[2]
    /\ Len(fields.val) = 3
    /\ fields.val[1].name = "RESERVED"
    /\ fields.val[2].name = df_bits[2].Mnemonic
    /\ fields.val[3].name = df_bits[1].Mnemonic

\* C6: a row whose locator is non-numeric, inverted (hi < lo) or has hi >= width makes
\* generate_bitfields fail instead of returning a layout.
C6_RejectsMalformedLocator ==
    (pc # "start" /\ \E i \in DOMAIN df_bits : Malformed(df_bits[i], width)) =>
        fields.exc \notin {"none", "pending"}

-----------------------------------------------------------------------------
(* get_uint_type, under SpecType *)

StandardWidths == {8, 16, 32, 64}

TypeName(b) ==
    CASE b = 8  -> "uint8_t"
      [] b = 16 -> "uint16_t"
      [] b = 32 -> "uint32_t"
      [] b = 64 -> "uint64_t"

\* C9: get_uint_type gives a type for every width, the narrowest standard unsigned
\* type holding it: 1..8 the 8-bit type, 9..16 the 16-bit, 17..32 the 32-bit, 33..64
\* and anything larger the 64-bit type.
C9_NarrowestType ==
    pc = "typed" =>
        /\ uint_type \in {TypeName(b) : b \in StandardWidths}
        /\ LET fit == {b \in StandardWidths : width <= b}
           IN  uint_type = TypeName(IF fit = {} THEN 64
                                    ELSE CHOOSE b \in fit : \A c \in fit : b <= c)
        /\ width \in 1 .. 8 => uint_type = "uint8_t"
        /\ width \in 9 .. 16 => uint_type = "uint16_t"
        /\ width \in 17 .. 32 => uint_type = "uint32_t"
        /\ width >= 33 => uint_type = "uint64_t"

\* C9 witness: a width beyond 64 bits was given the 64-bit type
C9_Witness == pc = "typed" /\ width > 64 /\ uint_type = "uint64_t"

-----------------------------------------------------------------------------
(* generate_assignment_lines, under SpecAssign *)

\* a non-empty layout whose entries have hi >= lo >= 0 and bits = hi - lo + 1
WellFormedLayout(layout) ==
    /\ layout # <<>>
    /\ \A i \in DOMAIN layout :
          /\ layout[i].hi >= layout[i].lo
          /\ layout[i].lo >= 0
          /\ layout[i].bits = layout[i].hi - layout[i].lo + 1

-----------------------------------------------------------------------------
(* excel_to_cpp_header, under SpecHeader *)

\* the blocks of the header that stand for registers
RegisterBlocks(text) == SelectSeq(text, LAMBDA b : b.kind \in {"struct", "missing"})

\* the register has at least one row in the "Register Specific" sheet
HasFieldRows(reg) ==
    \E i \in DOMAIN sheets.Register_Specific :
       sheets.Register_Specific[i].Register = reg.Register_Name

EntryOf(reg) == <<reg.Register_Name, reg.Address, reg.Description>>

\* C5: every "Register Map" row the loop has passed gave exactly one enum entry, in
\* row order, and exactly one block: the placeholder alone if the register has no
\* field rows, a struct (and no placeholder) if it has; the enum emitted behind the
\* loop lists every row in row order.
C5_EveryRegisterListed ==
    LET blocks == RegisterBlocks(header_lines)
        regs   == sheets.Register_Map
    IN  /\ Len(enum_entries) = idx
        /\ Len(blocks) = idx
        /\ \A k \in 1 .. idx :
              /\ enum_entries[k] = EntryOf(regs[k])
              /\ blocks[k].name = regs[k].Register_Name
              /\ blocks[k].kind = IF HasFieldRows(regs[k]) THEN "struct" ELSE "missing"
        /\ (hpc \in {"write", "done"} /\ language = "cpp") =>
              /\ idx = Len(regs)
              /\ header_lines[Len(header_lines)].kind = "enum"
              /\ LET enum == header_lines[Len(header_lines)].body
                 IN  /\ Len(enum) = Len(regs)
                     /\ \A k \in DOMAIN regs :
                           <<enum[k].name, enum[k].addr, enum[k].desc>> = EntryOf(regs[k])
        /\ hpc = "done" => out_file.text = header_lines

\* C5 witness: a header was written for a register without field rows followed by one
\* with field rows
C5_Witness ==
    /\ hpc = "done"
    /\ out_file.exists
    /\ Len(sheets.Register_Map) = 2
    /\ ~HasFieldRows(sheets.Register_Map[1])
    /\ HasFieldRows(sheets.Register_Map[2])
    /\ RegisterBlocks(out_file.text)[1].kind = "missing"
    /\ RegisterBlocks(out_file.text)[2].kind = "struct"
    /\ out_file.text[Len(out_file.text)].kind = "enum"

\* C7: no partial output: the file exists only once every "Register Map" row is
\* processed and the enum is built; a run that failed has written no file.
C7_NoPartialOutput ==
    /\ hpc = "failed" => ~out_file.exists
    /\ raised # "none" => ~out_file.exists
    /\ out_file.exists =>
          /\ hpc = "done"
          /\ idx = Len(sheets.Register_Map)
          /\ out_file.text = header_lines
          /\ language = "cpp" => header_lines[Len(header_lines)].kind = "enum"

\* C7 witness: the run failed on a locator after a register had been processed
C7_Witness ==
    /\ hpc = "failed"
    /\ raised = "ValueError"
    /\ idx >= 1
    /\ idx < Len(sheets.Register_Map)
    /\ ~out_file.exists

\* C8: with a language other than "cpp" the run never writes the output file and
\* never returns, whatever the register map.
C8_UnsupportedLanguageFails ==
    config.language \notin {"absent", "cpp"} =>
        /\ ~out_file.exists
        /\ hpc # "done"

====
